---- MODULE Spec2Model ----
(***************************************************************************)
(* Splunk SOAR MCP connector: the stdio server (mcp_server.py) and the     *)
(* HTTP server (mcp_server_remote.py).  Each server turns a tool           *)
(* invocation into at most one REST call against <SPLUNK_URL>/rest and      *)
(* returns the response, or the stringified exception, as text.            *)
(*                                                                         *)
(* Python values are tagged records (int / str / None); texts built with   *)
(* f-strings are sequences of their pieces, so that a prefix or a piece    *)
(* can be inspected; paths, urls and JSON bodies are strings built by      *)
(* concatenation as the f-strings and json.dumps build them.               *)
(***************************************************************************)
EXTENDS Integers, Sequences, FiniteSets, TLC

VARIABLES SPLUNK_URL, SPLUNK_TOKEN, TOOLS, serving, pc, req, resp, prev

vars == <<SPLUNK_URL, SPLUNK_TOKEN, TOOLS, serving, pc, req, resp, prev>>

\* ------------------------------------------------------------- bounds

\* Largest number of keys in an argument mapping of a request.
MaxArgs == 5

\* Number of argument keys a request of the history specification draws from.
MaxHistArgs == 1

\* Number of registered tools a request of the history specification draws from.
MaxHistTools == 8

\* ------------------------------------------------------------- values

IntV(n) == [t |-> "int", i |-> n, s |-> ""]

StrV(x) == [t |-> "str", i |-> 0, s |-> x]

NoneV == [t |-> "none", i |-> 0, s |-> ""]

\* str(v) / f"{v}" of a Python value.
Str(v) ==
    CASE v.t = "int" -> ToString(v.i)
      [] v.t = "str" -> v.s
      [] OTHER -> "None"

\* json.dumps(v) of a scalar.
JsonScalar(v) ==
    CASE v.t = "int" -> ToString(v.i)
      [] v.t = "str" -> "\"" \o v.s \o "\""
      [] OTHER -> "null"

\* The pieces of a text joined into the one string the caller receives.
RECURSIVE Flat(_)
Flat(parts) == IF parts = <<>> THEN "" ELSE Head(parts) \o Flat(Tail(parts))

\* ------------------------------------------------------------- inputs

ArgNames == {"page", "page_size", "container_id", "playbook_id", "action_run_id", "scope"}

\* The values a request may give an argument: the spec's example and a falsy one.
ArgVals(k) ==
    CASE k = "page" -> {IntV(2), IntV(0)}
      [] k = "page_size" -> {IntV(25), IntV(0)}
      [] k = "container_id" -> {IntV(9), IntV(0)}
      [] k = "playbook_id" -> {IntV(5), IntV(0)}
      [] k = "action_run_id" -> {IntV(7), IntV(0)}
      [] OTHER -> {StrV("new"), StrV("")}

\* Argument mappings (Python dicts) with at most n keys.
ArgMaps(n) ==
    UNION {{m \in [D -> UNION {ArgVals(k) : k \in D}] : \A k \in D : m[k] \in ArgVals(k)} :
           D \in {S \in SUBSET ArgNames : Cardinality(S) <= n}}

EmptyArgs == [k \in {} |-> NoneV]

ToolNames ==
    <<"test_connection", "list_containers", "get_container", "list_playbooks",
      "run_playbook", "list_actions", "get_action_run", "list_assets", "get_system_info">>

KnownNames == {ToolNames[i] : i \in DOMAIN ToolNames}

\* Tool names a client may send: the registered ones and one that is not.
NameInputs == KnownNames \cup {"delete_container"}

\* The raw environment values of SPLUNK_SOAR_URL, as pieces; <<>> is unset or empty.
UrlEnv == {<<>>, <<"/">>, <<"https://soar.example.com">>, <<"https://soar.example.com", "/">>}

TokenEnv == {"", "s3cr3t"}

\* A decoded JSON document of the remote platform with its two renderings.
Docs == {[compact |-> "{\"version\": \"6.2.1\"}", pretty |-> "{\n  \"version\": \"6.2.1\"\n}"]}

NoDoc == [compact |-> "", pretty |-> ""]

\* What urlopen and the reading of the response can do.
\*   ok: 2xx with a JSON body         badjson: 2xx whose body is not JSON
\*   http: 4xx/5xx with a text body   httpbin: 4xx/5xx whose body is not UTF-8
\*   urlerror: connection failure     timeout: socket timeout while reading
Outcomes ==
    {[k |-> "ok", code |-> 200, text |-> "", doc |-> d] : d \in Docs}
    \cup {[k |-> "badjson", code |-> 200, text |-> "<html>", doc |-> NoDoc]}
    \cup {[k |-> "http", code |-> c, text |-> "Not found", doc |-> NoDoc] : c \in {404, 500}}
    \cup {[k |-> "httpbin", code |-> 502, text |-> "", doc |-> NoDoc]}
    \cup {[k |-> "urlerror", code |-> 0, text |-> "[Errno 111] Connection refused", doc |-> NoDoc]}
    \cup {[k |-> "timeout", code |-> 0, text |-> "timed out", doc |-> NoDoc]}

\* No REST call was attempted.
NoOutcome == [k |-> "none", code |-> 0, text |-> "", doc |-> NoDoc]

\* ------------------------------------------------------------- REST client

\* str.rstrip("/") on the pieces of the url.
RECURSIVE RStripSlash(_)
RStripSlash(u) ==
    IF u # <<>> /\ u[Len(u)] = "/" THEN RStripSlash(SubSeq(u, 1, Len(u) - 1)) ELSE u

\* urlopen's timeout, in seconds.
Timeout == 30

\* data absent (None).
NoData == <<>>

\* json.dumps(data) of the dict run_playbook builds.
JsonDumps(d) ==
    "{\"container_id\": " \o JsonScalar(d.container_id)
    \o ", \"playbook_id\": " \o JsonScalar(d.playbook_id)
    \o ", \"scope\": " \o JsonScalar(d.scope)
    \o ", \"run\": " \o (IF d.run THEN "true" ELSE "false") \o "}"

\* The urllib Request the client sends.
Request(endpoint, method, data) ==
    [method |-> method,
     url |-> SPLUNK_URL \o "/rest" \o endpoint,
     path |-> endpoint,
     token |-> SPLUNK_TOKEN,
     contentType |-> "application/json",
     body |-> IF data # NoData THEN <<JsonDumps(data[1])>> ELSE <<>>,
     timeout |-> Timeout]

\* A function's return: a value, or a raised exception with str(e) = msg.
Returned(doc, calls) == [exc |-> FALSE, kind |-> "", msg |-> <<>>, doc |-> doc, calls |-> calls]

Raised(kind, msg, calls) == [exc |-> TRUE, kind |-> kind, msg |-> msg, doc |-> NoDoc, calls |-> calls]

\* Mutant of Urlopen: a failed attempt is made a second time before giving up.
Urlopen_Retry(r, o, handlesUrlError) ==
    IF o.k = "ok"
    THEN Returned(o.doc, <<r>>)
    ELSE Raised("Exception", <<"API Error ", ToString(o.code), ": ", o.text>>, <<r, r>>)

\* Mutant of Urlopen: the HTTP error carries the status code and not the body.
Urlopen_NoBody(r, o, handlesUrlError) ==
    IF o.k = "ok"
    THEN Returned(o.doc, <<r>>)
    ELSE Raised("Exception", <<"API Error ", ToString(o.code)>>, <<r>>)

\* What the try block around urlopen does with outcome o; handlesUrlError is
\* whether the function has the except URLError clause.
Urlopen(r, o, handlesUrlError) ==
    CASE o.k = "ok" -> Returned(o.doc, <<r>>)
      [] o.k = "badjson" ->
           Raised("JSONDecodeError", <<"Expecting value: line 1 column 1 (char 0)">>, <<r>>)
      [] o.k = "http" ->
           Raised("Exception", <<"API Error ", ToString(o.code), ": ", o.text>>, <<r>>)
      [] o.k = "httpbin" ->
           Raised("UnicodeDecodeError", <<"'utf-8' codec can't decode byte">>, <<r>>)
      [] o.k = "urlerror" ->
           IF handlesUrlError
           THEN Raised("Exception", <<"Connection Error: ", o.text>>, <<r>>)
           ELSE Raised("URLError", <<"<urlopen error ", o.text, ">">>, <<r>>)
      [] OTHER -> Raised("TimeoutError", <<o.text>>, <<r>>)

\* Mutant of soar_api_request: the last good response is served from a cache.
soar_api_request_Cached(endpoint, method, data, o) ==
    IF SPLUNK_URL = "" \/ SPLUNK_TOKEN = ""
    THEN Raised("ValueError",
                <<"SPLUNK_SOAR_URL and SPLUNK_SOAR_TOKEN environment variables must be set">>,
                <<>>)
    ELSE IF prev.resp.outcome.k = "ok"
    THEN Returned(prev.resp.outcome.doc, <<>>)
    ELSE Urlopen(Request(endpoint, method, data), o, TRUE)

\* mcp_server.py
soar_api_request(endpoint, method, data, o) ==
    IF SPLUNK_URL = "" \/ SPLUNK_TOKEN = ""
    THEN Raised("ValueError",
                <<"SPLUNK_SOAR_URL and SPLUNK_SOAR_TOKEN environment variables must be set">>,
                <<>>)
    ELSE Urlopen(Request(endpoint, method, data), o, TRUE)

\* Mutant of soar_api_request_remote: the configuration is not checked.
soar_api_request_remote_NoCheck(endpoint, method, data, o) ==
    Urlopen(Request(endpoint, method, data), o, FALSE)

\* mcp_server_remote.py
soar_api_request_remote(endpoint, method, data, o) ==
    IF SPLUNK_URL = "" \/ SPLUNK_TOKEN = ""
    THEN Raised("ValueError", <<"SPLUNK_SOAR_URL and SPLUNK_SOAR_TOKEN must be set">>, <<>>)
    ELSE Urlopen(Request(endpoint, method, data), o, FALSE)

\* ------------------------------------------------------------- stdio dispatcher

\* Mutant of Get: `m.get(key) or default`, a falsy given value gives the default.
Get_Falsy(m, key, default) ==
    IF key \in DOMAIN m /\ m[key] # IntV(0) /\ m[key] # StrV("") THEN m[key] ELSE default

\* dict.get(key, default)
Get(m, key, default) == IF key \in DOMAIN m THEN m[key] ELSE default

\* str(KeyError(key))
KeyErrorMsg(key) == <<"'" \o key \o "'">>

\* Mutant of ErrorResult: `return str(e)`.
ErrorResult_NoPrefix(e) == [text |-> e.msg, calls |-> e.calls]

\* The except clause of a dispatcher: f"Error: {str(e)}".
ErrorResult(e) == [text |-> <<"Error: ">> \o e.msg, calls |-> e.calls]

\* A dispatcher's return after soar_api_request returned or raised r.
Result(r, prefix, rendered) ==
    IF r.exc THEN ErrorResult(r) ELSE [text |-> prefix \o <<rendered>>, calls |-> r.calls]

\* The run_playbook request data.
PlaybookData(container_id, playbook_id, scope) ==
    <<[container_id |-> container_id, playbook_id |-> playbook_id, scope |-> scope, run |-> TRUE]>>

DefaultPage == 0

DefaultPageSize == 10

\* mcp_server.py: the else branch of call_tool.
unknown_tool(name) == [text |-> <<"Unknown tool: ", name>>, calls |-> <<>>]

\* mcp_server.py: call_tool(name, arguments) when the REST call, if made, ends as o.
call_tool(name, arguments, o) ==
    CASE name = "test_connection" ->
           LET r == soar_api_request("/version", "GET", NoData, o)
           IN  Result(r, <<"Connection successful! SOAR Version: ">>, r.doc.pretty)
      [] name = "list_containers" ->
           LET page == Get(arguments, "page", IntV(DefaultPage))
               page_size == Get(arguments, "page_size", IntV(DefaultPageSize))
               r == soar_api_request("/container?page=" \o Str(page) \o "&page_size=" \o Str(page_size),
                                     "GET", NoData, o)
           IN  Result(r, <<>>, r.doc.pretty)
      [] name = "get_container" ->
           IF "container_id" \notin DOMAIN arguments
           THEN ErrorResult(Raised("KeyError", KeyErrorMsg("container_id"), <<>>))
           ELSE LET r == soar_api_request("/container/" \o Str(arguments["container_id"]),
                                          "GET", NoData, o)
                IN  Result(r, <<>>, r.doc.pretty)
      [] name = "list_playbooks" ->
           LET r == soar_api_request("/playbook?page_size=100", "GET", NoData, o)
           IN  Result(r, <<>>, r.doc.pretty)
      [] name = "run_playbook" ->
           IF "playbook_id" \notin DOMAIN arguments
           THEN ErrorResult(Raised("KeyError", KeyErrorMsg("playbook_id"), <<>>))
           ELSE IF "container_id" \notin DOMAIN arguments
           THEN ErrorResult(Raised("KeyError", KeyErrorMsg("container_id"), <<>>))
           ELSE LET data == PlaybookData(arguments["container_id"], arguments["playbook_id"],
                                         Get(arguments, "scope", StrV("all")))
                    r == soar_api_request("/playbook_run", "POST", data, o)
                IN  Result(r, <<"Playbook started: ">>, r.doc.pretty)
      [] name = "list_actions" ->
           LET r == soar_api_request("/action?page_size=100", "GET", NoData, o)
           IN  Result(r, <<>>, r.doc.pretty)
      [] name = "get_action_run" ->
           IF "action_run_id" \notin DOMAIN arguments
           THEN ErrorResult(Raised("KeyError", KeyErrorMsg("action_run_id"), <<>>))
           ELSE LET r == soar_api_request("/action_run/" \o Str(arguments["action_run_id"]),
                                          "GET", NoData, o)
                IN  Result(r, <<>>, r.doc.pretty)
      [] name = "list_assets" ->
           LET r == soar_api_request("/asset?page_size=100", "GET", NoData, o)
           IN  Result(r, <<>>, r.doc.pretty)
      [] name = "get_system_info" ->
           LET r == soar_api_request("/system_info", "GET", NoData, o)
           IN  Result(r, <<>>, r.doc.pretty)
      [] OTHER -> unknown_tool(name)

\* The arguments a tool's inputSchema lists as required.
Required(name) ==
    CASE name = "get_container" -> {"container_id"}
      [] name = "run_playbook" -> {"playbook_id", "container_id"}
      [] name = "get_action_run" -> {"action_run_id"}
      [] OTHER -> {}

\* mcp_server.py: list_tools(), each descriptor's name and required arguments.
list_tools == [i \in DOMAIN ToolNames |-> [name |-> ToolNames[i], required |-> Required(ToolNames[i])]]

\* ------------------------------------------------------------- HTTP dispatcher

\* A decoded JSON "arguments" value: an object (dict) or something else (a list).
JObj(m) == [t |-> "obj", m |-> m]

JList == [t |-> "list", m |-> EmptyArgs]

\* args.get(key, default); raises AttributeError when args is not a dict.
ArgsGetRaises(args) == args.t # "obj"

AttributeErrorMsg == <<"'list' object has no attribute 'get'">>

\* Mutant of unknown_tool_remote: the unknown name is raised as an error.
unknown_tool_remote_Raises(name) ==
    [text |-> <<"Error: ", "Unknown tool: ", Str(name)>>, calls |-> <<>>]

\* mcp_server_remote.py: the else branch of execute_tool.
unknown_tool_remote(name) == [text |-> <<"Unknown tool: ", Str(name)>>, calls |-> <<>>]

\* mcp_server_remote.py: execute_tool(name, args) when the REST call, if made, ends as o.
execute_tool(name, args, o) ==
    CASE name = StrV("test_connection") ->
           LET r == soar_api_request_remote("/version", "GET", NoData, o)
           IN  Result(r, <<"Connected! Version: ">>, r.doc.compact)
      [] name = StrV("list_containers") ->
           IF ArgsGetRaises(args)
           THEN ErrorResult(Raised("AttributeError", AttributeErrorMsg, <<>>))
           ELSE LET page == Get(args.m, "page", IntV(DefaultPage))
                    page_size == Get(args.m, "page_size", IntV(DefaultPageSize))
                    r == soar_api_request_remote(
                             "/container?page=" \o Str(page) \o "&page_size=" \o Str(page_size),
                             "GET", NoData, o)
                IN  Result(r, <<>>, r.doc.pretty)
      [] name = StrV("get_container") ->
           IF ArgsGetRaises(args)
           THEN ErrorResult(Raised("AttributeError", AttributeErrorMsg, <<>>))
           ELSE LET container_id == Get(args.m, "container_id", NoneV)
                    r == soar_api_request_remote("/container/" \o Str(container_id),
                                                 "GET", NoData, o)
                IN  Result(r, <<>>, r.doc.pretty)
      [] name = StrV("list_playbooks") ->
           LET r == soar_api_request_remote("/playbook?page_size=100", "GET", NoData, o)
           IN  Result(r, <<>>, r.doc.pretty)
      [] name = StrV("run_playbook") ->
           IF ArgsGetRaises(args)
           THEN ErrorResult(Raised("AttributeError", AttributeErrorMsg, <<>>))
           ELSE LET data == PlaybookData(Get(args.m, "container_id", NoneV),
                                         Get(args.m, "playbook_id", NoneV),
                                         Get(args.m, "scope", StrV("all")))
                    r == soar_api_request_remote("/playbook_run", "POST", data, o)
                IN  Result(r, <<"Playbook started: ">>, r.doc.compact)
      [] name = StrV("list_actions") ->
           LET r == soar_api_request_remote("/action?page_size=100", "GET", NoData, o)
           IN  Result(r, <<>>, r.doc.pretty)
      [] name = StrV("get_action_run") ->
           IF ArgsGetRaises(args)
           THEN ErrorResult(Raised("AttributeError", AttributeErrorMsg, <<>>))
           ELSE LET action_run_id == Get(args.m, "action_run_id", NoneV)
                    r == soar_api_request_remote("/action_run/" \o Str(action_run_id),
                                                 "GET", NoData, o)
                IN  Result(r, <<>>, r.doc.pretty)
      [] name = StrV("list_assets") ->
           LET r == soar_api_request_remote("/asset?page_size=100", "GET", NoData, o)
           IN  Result(r, <<>>, r.doc.pretty)
      [] name = StrV("get_system_info") ->
           LET r == soar_api_request_remote("/system_info", "GET", NoData, o)
           IN  Result(r, <<>>, r.doc.pretty)
      [] OTHER -> unknown_tool_remote(name)

\* mcp_server_remote.py: the TOOLS list.
ToolsList ==
    <<[name |-> "test_connection", description |-> "Test connection to SOAR"],
      [name |-> "list_containers", description |-> "List containers/incidents"],
      [name |-> "get_container", description |-> "Get container details"],
      [name |-> "list_playbooks", description |-> "List available playbooks"],
      [name |-> "run_playbook", description |-> "Run a playbook"],
      [name |-> "list_actions", description |-> "List available actions"],
      [name |-> "get_action_run", description |-> "Get action run status"],
      [name |-> "list_assets", description |-> "List configured assets"],
      [name |-> "get_system_info", description |-> "Get system information"]>>

\* ------------------------------------------------------------- requests and responses

\* The body of a POST as do_POST finds it:
\*   unreadable: Content-Length is no integer, or the bytes are not UTF-8
\*   empty: no body                  badjson: text that is not JSON
\*   nonobject: JSON, not an object  object: a JSON object
\* tool and args are <<>> when the object has no such key, else <<value>>.
Body(k, tool, args) == [k |-> k, tool |-> tool, args |-> args]

NoBody == Body("", <<>>, <<>>)

StdioRequest(op, name, arguments) ==
    [transport |-> "stdio", op |-> op, path |-> "", body |-> NoBody,
     name |-> name, arguments |-> arguments]

HttpRequest(op, path, body) ==
    [transport |-> "http", op |-> op, path |-> path, body |-> body,
     name |-> "", arguments |-> EmptyArgs]

NoReq == [transport |-> "", op |-> "", path |-> "", body |-> NoBody,
          name |-> "", arguments |-> EmptyArgs]

\* A response: status is the HTTP status (0 over stdio, or when none was sent);
\* field is the key of the JSON body ("content" for a TextContent list); escaped is
\* whether an exception left the handler; calls are the REST calls the handler made
\* and outcome how the call ended.
Response(status, field, text, tools, calls, outcome, escaped) ==
    [status |-> status, field |-> field, text |-> text, tools |-> tools,
     calls |-> calls, outcome |-> outcome, escaped |-> escaped]

NoResp == Response(0, "", <<>>, <<>>, <<>>, NoOutcome, FALSE)

NoPrev == [req |-> NoReq, resp |-> NoResp]

\* The outcome a dispatch result d records: o when the call was made.
Seen(d, o) == IF d.calls = <<>> THEN NoOutcome ELSE o

\* POST bodies that carry a JSON object: the tool key absent or a name of names,
\* the arguments key absent, a list, or a mapping of maps.
ObjectBodies(names, maps) ==
    {Body("object", tool, args) :
        tool \in {<<>>} \cup {<<StrV(nm)>> : nm \in names},
        args \in {<<>>, <<JList>>} \cup {<<JObj(m)>> : m \in maps}}

OtherBodies ==
    {Body("unreadable", <<>>, <<>>), Body("empty", <<>>, <<>>),
     Body("badjson", <<>>, <<>>), Body("nonobject", <<>>, <<>>)}

\* The argument mappings a client may send.
RequestMaps == ArgMaps(MaxArgs)

\* The bodies a client may POST to /execute, and to another path.
ExecuteBodies == OtherBodies \cup ObjectBodies(NameInputs, RequestMaps)

HealthBodies == OtherBodies \cup {Body("object", <<>>, <<>>)}

\* The paths a client may GET.
GetPaths == {"/health", "/tools", "/execute"}

\* ------------------------------------------------------------- state machine

Init ==
    /\ \E u \in UrlEnv : SPLUNK_URL = Flat(RStripSlash(u))
    /\ SPLUNK_TOKEN \in TokenEnv
    /\ TOOLS = ToolsList
    /\ serving = TRUE
    /\ pc = "idle"
    /\ req = NoReq
    /\ resp = NoResp
    /\ prev = NoPrev

Config == <<SPLUNK_URL, SPLUNK_TOKEN, TOOLS, serving>>

\* The protocol runtime reads a request from stdin and calls the registered hook.
StdioReceiveFrom(names, maps) ==
    /\ pc = "idle"
    /\ serving
    /\ \/ req' = StdioRequest("list_tools", "", EmptyArgs)
       \/ \E nm \in names, m \in maps : req' = StdioRequest("call_tool", nm, m)
    /\ pc' = "recv"
    /\ UNCHANGED <<Config, resp, prev>>

\* HTTPServer accepts a request and calls the handler's do_<METHOD>.
HttpReceiveFrom(bodies) ==
    /\ pc = "idle"
    /\ serving
    /\ \/ \E p \in GetPaths : req' = HttpRequest("GET", p, NoBody)
       \/ req' = HttpRequest("OPTIONS", "/execute", NoBody)
       \/ \E b \in bodies : req' = HttpRequest("POST", "/execute", b)
       \/ \E b \in HealthBodies : req' = HttpRequest("POST", "/health", b)
    /\ pc' = "recv"
    /\ UNCHANGED <<Config, resp, prev>>

StdioReceive == StdioReceiveFrom(NameInputs, RequestMaps)

HttpReceive == HttpReceiveFrom(ExecuteBodies)

\* mcp_server.py: the list_tools hook.
ListTools ==
    /\ pc = "recv" /\ req.transport = "stdio" /\ req.op = "list_tools"
    /\ resp' = Response(0, "tools", <<>>, list_tools, <<>>, NoOutcome, FALSE)
    /\ pc' = "done"
    /\ UNCHANGED <<Config, req, prev>>

\* mcp_server.py: the call_tool hook.
CallTool ==
    /\ pc = "recv" /\ req.transport = "stdio" /\ req.op = "call_tool"
    /\ \E o \in Outcomes :
         LET d == call_tool(req.name, req.arguments, o)
         IN  resp' = Response(0, "content", d.text, <<>>, d.calls, Seen(d, o), FALSE)
    /\ pc' = "done"
    /\ UNCHANGED <<Config, req, prev>>

\* mcp_server_remote.py: MCPHandler.send_json(data, status) for a one-key object.
send_json(field, text, tools, status, calls, outcome) ==
    Response(status, field, text, tools, calls, outcome, FALSE)

\* mcp_server_remote.py: MCPHandler.do_OPTIONS.
DoOPTIONS ==
    /\ pc = "recv" /\ req.transport = "http" /\ req.op = "OPTIONS"
    /\ resp' = Response(200, "", <<>>, <<>>, <<>>, NoOutcome, FALSE)
    /\ pc' = "done"
    /\ UNCHANGED <<Config, req, prev>>

\* mcp_server_remote.py: MCPHandler.do_GET.
DoGET ==
    /\ pc = "recv" /\ req.transport = "http" /\ req.op = "GET"
    /\ resp' = CASE req.path = "/health" -> send_json("status", <<"ok">>, <<>>, 200, <<>>, NoOutcome)
                 [] req.path = "/tools" -> send_json("tools", <<>>, TOOLS, 200, <<>>, NoOutcome)
                 [] OTHER -> send_json("error", <<"Not found">>, <<>>, 404, <<>>, NoOutcome)
    /\ pc' = "done"
    /\ UNCHANGED <<Config, req, prev>>

\* data.get("tool"): None when the key is absent.
ToolOf(body) == IF body.tool = <<>> THEN NoneV ELSE body.tool[1]

\* data.get("arguments", {}).
ArgsOf(body) == IF body.args = <<>> THEN JObj(EmptyArgs) ELSE body.args[1]

\* Mutant of do_POST: `data = json.loads(body)`, an empty body does not parse.
do_POST_NoEmptyCheck(path, body, o) ==
    CASE body.k = "unreadable" -> Response(0, "", <<>>, <<>>, <<>>, NoOutcome, TRUE)
      [] body.k = "badjson" \/ body.k = "empty" ->
           send_json("error", <<"Expecting value: line 1 column 1 (char 0)">>, <<>>, 500,
                     <<>>, NoOutcome)
      [] path # "/execute" ->
           send_json("error", <<"Not found">>, <<>>, 404, <<>>, NoOutcome)
      [] body.k = "nonobject" ->
           send_json("error", AttributeErrorMsg, <<>>, 500, <<>>, NoOutcome)
      [] OTHER ->
           LET d == execute_tool(ToolOf(body), ArgsOf(body), o)
           IN  send_json("result", d.text, <<>>, 200, d.calls, Seen(d, o))

\* mcp_server_remote.py: MCPHandler.do_POST when the REST call, if made, ends as o.
do_POST(path, body, o) ==
    CASE body.k = "unreadable" ->
           \* int(Content-Length) or decode() raises before the try block
           Response(0, "", <<>>, <<>>, <<>>, NoOutcome, TRUE)
      [] body.k = "badjson" ->
           send_json("error", <<"Expecting value: line 1 column 1 (char 0)">>, <<>>, 500,
                     <<>>, NoOutcome)
      [] path # "/execute" ->
           send_json("error", <<"Not found">>, <<>>, 404, <<>>, NoOutcome)
      [] body.k = "nonobject" ->
           send_json("error", AttributeErrorMsg, <<>>, 500, <<>>, NoOutcome)
      [] OTHER ->
           \* an empty body is read as {}
           LET d == execute_tool(ToolOf(body), ArgsOf(body), o)
           IN  send_json("result", d.text, <<>>, 200, d.calls, Seen(d, o))

DoPOST ==
    /\ pc = "recv" /\ req.transport = "http" /\ req.op = "POST"
    /\ \E o \in Outcomes : resp' = do_POST(req.path, req.body, o)
    /\ pc' = "done"
    /\ UNCHANGED <<Config, req, prev>>

\* The response goes back to the client and the server waits for the next
\* request; an exception that left an HTTP handler ended that request only.
DeliverTo(p) ==
    /\ pc = "done"
    /\ pc' = "idle"
    /\ req' = NoReq
    /\ resp' = NoResp
    /\ prev' = p
    /\ UNCHANGED Config

Deliver == DeliverTo(prev)

Next ==
    \/ StdioReceive
    \/ HttpReceive
    \/ ListTools
    \/ CallTool
    \/ DoOPTIONS
    \/ DoGET
    \/ DoPOST
    \/ Deliver

Spec == Init /\ [][Next]_vars

\* ------------------------------------------------------------- history specification
\* The same servers with one earlier exchange remembered in prev, over fewer inputs.

HistNames == {ToolNames[i] : i \in 1..MaxHistTools} \cup {"delete_container"}

HistArgKeys == <<"container_id", "page", "playbook_id", "scope", "action_run_id", "page_size">>

HistKeys == {HistArgKeys[i] : i \in 1..MaxHistArgs}

HistMaps == {m \in ArgMaps(MaxHistArgs) : DOMAIN m \subseteq HistKeys}

StdioReceiveH == StdioReceiveFrom(HistNames, HistMaps)

HistExecuteBodies == OtherBodies \cup ObjectBodies(HistNames, HistMaps)

HttpReceiveH == HttpReceiveFrom(HistExecuteBodies)

\* The exchange just finished is remembered, or the remembered one is kept.
DeliverH == \E keep \in BOOLEAN : DeliverTo(IF keep THEN prev ELSE [req |-> req, resp |-> resp])

NextH ==
    \/ StdioReceiveH
    \/ HttpReceiveH
    \/ ListTools
    \/ CallTool
    \/ DoOPTIONS
    \/ DoGET
    \/ DoPOST
    \/ DeliverH

SpecHist == Init /\ [][NextH]_vars

\* ------------------------------------------------------------- vocabulary of the claims

\* The request in hand is a tool invocation over stdio (call_tool was called).
InvIsStdio == req.transport = "stdio" /\ req.op = "call_tool"

\* The request in hand is a tool invocation over HTTP (execute_tool was called).
InvIsHttp ==
    /\ req.transport = "http" /\ req.op = "POST" /\ req.path = "/execute"
    /\ (req.body.k = "empty" \/ req.body.k = "object")

\* A tool invocation has returned.
Dispatched == pc = "done" /\ (InvIsStdio \/ InvIsHttp)

InvName == IF InvIsStdio THEN StrV(req.name) ELSE ToolOf(req.body)

InvArgs == IF InvIsStdio THEN JObj(req.arguments) ELSE ArgsOf(req.body)

KnownNameValues == {StrV(nm) : nm \in KnownNames}

InvKnown == InvName \in KnownNameValues

\* The arguments are a mapping that supplies what the tool's schema requires.
SuppliesRequired == InvArgs.t = "obj" /\ Required(InvName.s) \subseteq DOMAIN InvArgs.m

ConfigUnset == SPLUNK_URL = "" \/ SPLUNK_TOKEN = ""

IsError == resp.text # <<>> /\ Head(resp.text) = "Error: "

Contains(text, piece) == \E i \in DOMAIN text : text[i] = piece

\* The REST call was attempted and failed.
FailureKinds == {"badjson", "http", "httpbin", "urlerror", "timeout"}

CallFailed == resp.outcome.k \in FailureKinds

\* A text result came back through the transport: a TextContent over stdio,
\* status 200 with {result: ...} over HTTP.
TextReturned ==
    /\ ~resp.escaped
    /\ resp.text # <<>>
    /\ IF InvIsStdio THEN resp.field = "content" /\ resp.status = 0
                     ELSE resp.field = "result" /\ resp.status = 200

\* ------------------------------------------------------------- claims

\* C1: every tool invocation, through call_tool or execute_tool, whatever the name,
\* the arguments, the configuration and the outcome of the REST call, returns a text
\* result and lets no exception escape; a request in hand always has a handler able
\* to answer it; every failure of the REST client (missing configuration, HTTP
\* error, connection failure, timeout, undecodable response) comes back as a string
\* starting with "Error: ".
C1_AlwaysTextResult ==
    /\ pc = "recv" => ENABLED (ListTools \/ CallTool \/ DoOPTIONS \/ DoGET \/ DoPOST)
    /\ Dispatched =>
         /\ TextReturned
         /\ CallFailed => IsError
         /\ (InvKnown /\ ConfigUnset) => IsError

C1_Witness ==
    /\ Dispatched /\ InvIsHttp /\ resp.outcome.k = "urlerror"
    /\ TextReturned /\ IsError

\* C2: an invocation of a name that is not registered returns the text
\* "Unknown tool: <name>" as a normal result (HTTP: 200 with {result: ...}) and
\* issues no REST call, whatever the arguments and the configuration.
C2_UnknownTool ==
    (Dispatched /\ ~InvKnown) =>
        /\ TextReturned
        /\ Flat(resp.text) = "Unknown tool: " \o Str(InvName)
        /\ resp.calls = <<>>

C2_Witness ==
    /\ Dispatched /\ InvIsHttp /\ InvName = StrV("delete_container")
    /\ ConfigUnset /\ InvArgs.t = "list"
    /\ resp.status = 200 /\ resp.field = "result"
    /\ Flat(resp.text) = "Unknown tool: delete_container"

\* C3 as stated: every invocation of the dispatcher makes exactly one REST call.
C3_ExactlyOneCall == Dispatched => Len(resp.calls) = 1

\* C3 amended: every invocation makes at most one REST call and a failed call is
\* not retried; it makes exactly one when the tool is registered, the
\* configuration is set and the arguments are a mapping that supplies the
\* required arguments.
C3_AtMostOneCall ==
    Dispatched =>
        /\ Len(resp.calls) <= 1
        /\ CallFailed => Len(resp.calls) = 1
        /\ (InvKnown /\ ~ConfigUnset /\ SuppliesRequired) => Len(resp.calls) = 1

C3_Witness == Dispatched /\ resp.outcome.k = "timeout" /\ Len(resp.calls) = 1 /\ IsError

\* C4: an invocation of get_container, run_playbook or get_action_run whose
\* argument mapping lacks a required argument reports the failure and issues no
\* REST call, in both dispatchers.
C4_MissingArgumentFails ==
    (Dispatched /\ InvKnown /\ InvArgs.t = "obj" /\ ~SuppliesRequired) =>
        IsError /\ resp.calls = <<>>

\* The REST call the mapping table gives an invocation of tool nm with argument
\* mapping m: <<method, path with query string, body>> (body <<>> when none).
TableCall(nm, m) ==
    CASE nm = "test_connection" -> <<"GET", "/version", <<>> >>
      [] nm = "list_containers" ->
           <<"GET",
             "/container?page=" \o (IF "page" \in DOMAIN m THEN Str(m["page"]) ELSE "0")
               \o "&page_size=" \o (IF "page_size" \in DOMAIN m THEN Str(m["page_size"]) ELSE "10"),
             <<>> >>
      [] nm = "get_container" -> <<"GET", "/container/" \o Str(m["container_id"]), <<>> >>
      [] nm = "list_playbooks" -> <<"GET", "/playbook?page_size=100", <<>> >>
      [] nm = "run_playbook" ->
           <<"POST", "/playbook_run",
             <<"{\"container_id\": " \o JsonScalar(m["container_id"])
               \o ", \"playbook_id\": " \o JsonScalar(m["playbook_id"])
               \o ", \"scope\": "
               \o (IF "scope" \in DOMAIN m THEN JsonScalar(m["scope"]) ELSE "\"all\"")
               \o ", \"run\": true}">> >>
      [] nm = "list_actions" -> <<"GET", "/action?page_size=100", <<>> >>
      [] nm = "get_action_run" -> <<"GET", "/action_run/" \o Str(m["action_run_id"]), <<>> >>
      [] nm = "list_assets" -> <<"GET", "/asset?page_size=100", <<>> >>
      [] OTHER -> <<"GET", "/system_info", <<>> >>

\* The spec's worked examples of the table.
NoArgsGiven == DOMAIN InvArgs.m = {}

PageExample ==
    /\ DOMAIN InvArgs.m = {"page", "page_size"}
    /\ InvArgs.m["page"] = IntV(2) /\ InvArgs.m["page_size"] = IntV(25)

PlaybookExample ==
    /\ DOMAIN InvArgs.m = {"playbook_id", "container_id"}
    /\ InvArgs.m["playbook_id"] = IntV(5) /\ InvArgs.m["container_id"] = IntV(9)

\* C5: for a registered tool and an argument mapping that supplies the required
\* arguments, the REST call either dispatcher issues has the method, the path with
\* its query string and the body of the mapping table, is sent to
\* <SPLUNK_URL>/rest<path>, and is issued whenever the configuration is set; page
\* defaults to 0, page_size to 10 and scope to "all", and given values pass through.
C5_MappingTable ==
    (Dispatched /\ InvKnown /\ SuppliesRequired) =>
        /\ ~ConfigUnset => resp.calls # <<>>
        /\ resp.calls # <<>> =>
             LET c == resp.calls[1]
             IN  /\ <<c.method, c.path, c.body>> = TableCall(InvName.s, InvArgs.m)
                 /\ c.url = SPLUNK_URL \o "/rest" \o c.path
                 /\ (InvName.s = "list_containers" /\ NoArgsGiven)
                       => c.path = "/container?page=0&page_size=10"
                 /\ (InvName.s = "list_containers" /\ PageExample)
                       => c.path = "/container?page=2&page_size=25"
                 /\ (InvName.s = "run_playbook" /\ PlaybookExample)
                       => c.body = <<"{\"container_id\": 9, \"playbook_id\": 5, \"scope\": \"all\", \"run\": true}">>

C5_Witness ==
    /\ Dispatched /\ InvIsStdio /\ InvName.s = "run_playbook" /\ PlaybookExample
    /\ Len(resp.calls) = 1
    /\ resp.calls[1].method = "POST" /\ resp.calls[1].path = "/playbook_run"
    /\ resp.calls[1].body = <<"{\"container_id\": 9, \"playbook_id\": 5, \"scope\": \"all\", \"run\": true}">>

\* How an invocation is classified by its result text.
Classify(text) ==
    CASE text # <<>> /\ Head(text) = "Error: " -> "error"
      [] text # <<>> /\ Head(text) = "Unknown tool: " -> "unknown"
      [] OTHER -> "success"

\* The REST calls of a dispatch result as <<method, path, body>>.
CallsOf(d) == [i \in DOMAIN d.calls |-> <<d.calls[i].method, d.calls[i].path, d.calls[i].body>>]

\* C6: for the tool name and the argument mapping of any stdio invocation,
\* mappings that omit required arguments included, and any outcome of the REST
\* call, call_tool and execute_tool issue the same REST call (or both none) and
\* classify the invocation the same way.
C6_SameDispatch ==
    (pc = "done" /\ InvIsStdio) =>
        \A o \in Outcomes :
            LET a == call_tool(req.name, req.arguments, o)
                b == execute_tool(StrV(req.name), JObj(req.arguments), o)
            IN  CallsOf(a) = CallsOf(b) /\ Classify(a.text) = Classify(b.text)

ExecutePosted == pc = "done" /\ req.transport = "http" /\ req.op = "POST" /\ req.path = "/execute"

ConfigMessages ==
    {"SPLUNK_SOAR_URL and SPLUNK_SOAR_TOKEN environment variables must be set",
     "SPLUNK_SOAR_URL and SPLUNK_SOAR_TOKEN must be set"}

NamesMissingConfig == \E i \in DOMAIN resp.text : resp.text[i] \in ConfigMessages

\* C9 as stated: with the base url or the token unset, every invocation of a
\* registered tool issues no REST call and returns an "Error: ..." result that
\* names the missing configuration.
C9_UnsetConfigNamed ==
    (ConfigUnset /\ Dispatched /\ InvKnown) =>
        resp.calls = <<>> /\ IsError /\ NamesMissingConfig

\* C9 amended: with the base url or the token unset, every invocation of a
\* registered tool issues no REST call and returns an "Error: ..." result; the
\* result names the missing configuration whenever the arguments are a mapping that
\* supplies the tool's required arguments (otherwise call_tool reports the missing
\* argument and execute_tool the unusable arguments value); GET /health still
\* answers 200 {status: "ok"} and GET /tools 200 with the nine-entry registry.
C9_UnsetConfig ==
    ConfigUnset =>
        /\ (Dispatched /\ InvKnown) =>
             /\ resp.calls = <<>>
             /\ TextReturned /\ IsError
             /\ SuppliesRequired => NamesMissingConfig
        /\ (pc = "done" /\ req.op = "GET" /\ req.path = "/health") =>
             resp.status = 200 /\ resp.field = "status" /\ resp.text = <<"ok">>
        /\ (pc = "done" /\ req.op = "GET" /\ req.path = "/tools") =>
             /\ resp.status = 200 /\ resp.field = "tools"
             /\ [i \in DOMAIN resp.tools |-> resp.tools[i].name] = ToolNames

C9_Witness ==
    /\ SPLUNK_URL # "" /\ SPLUNK_TOKEN = ""
    /\ Dispatched /\ InvKnown /\ SuppliesRequired
    /\ resp.calls = <<>> /\ IsError /\ NamesMissingConfig

\* The exchange remembered in prev had the request now answered.
Repeated == pc = "done" /\ prev # NoPrev /\ prev.req = req

\* C10: no step of either server changes the configuration or the registry or
\* stops the serving, list_tools returns the same nine descriptors every time, and
\* an exchange repeats an earlier one: the same request issues the same REST call,
\* and with the same outcome of that call gets the same response, whatever was
\* served in between.
C10_NoCrossInvocationState ==
    [][/\ SPLUNK_URL' = SPLUNK_URL /\ SPLUNK_TOKEN' = SPLUNK_TOKEN
       /\ TOOLS' = TOOLS /\ Len(TOOLS') = 9 /\ serving'
       /\ (pc' = "done" /\ req'.op = "list_tools") => resp'.tools = list_tools
       /\ Repeated' =>
            /\ prev'.resp.calls = resp'.calls
            /\ prev'.resp.outcome = resp'.outcome => prev'.resp = resp']_vars

C10_Witness ==
    /\ Repeated /\ Dispatched /\ InvKnown
    /\ Len(resp.calls) = 1 /\ prev.resp.outcome = resp.outcome /\ prev.resp = resp

====
